---- MODULE Spec2Model ----
(***************************************************************************)
(* Model of the LINE voice reminder bot (src/app.py).                      *)
(*                                                                         *)
(* A webhook request is handled by callback / handle_audio_message; a      *)
(* reminder job runs send_reminder on a worker thread of the               *)
(* BackgroundScheduler, concurrently with the handlers and with the other  *)
(* jobs.  Every call of an external service and every statement that       *)
(* touches the shared table, the job store or the file system is one step. *)
(* Each request has a thread of its own, which calls the handler for the    *)
(* audio events of its body one after the other; the threads of different  *)
(* requests interleave statement by statement.                             *)
(*                                                                         *)
(* Text is a sequence of one-character strings, so that strip, split and   *)
(* strptime / strftime are computed character by character.                *)
(***************************************************************************)
EXTENDS Integers, Sequences, FiniteSets, TLC

\* Number of webhook requests of one run.
MaxRequests == 2

Req == 1..MaxRequests

None == "None"

(***************************************************************************)
(* Text helpers: str.strip, str.split('\n')                                *)
(***************************************************************************)
Digit == {"0", "1", "2", "3", "4", "5", "6", "7", "8", "9"}

\* the white space str.strip() removes and \s matches, among the characters
\* a string of the model can hold (up to U+00FF): space, tab, line feed,
\* carriage return, form feed, vertical tab, the separators U+001C..U+001F,
\* next line U+0085 and the no-break space U+00A0
VT == ""
FS == ""
GS == ""
RS == ""
US == ""
NEL == ""
NBSP == " "

IsSpace(c) == c \in {" ", "\t", "\n", "\r", "\f", VT, FS, GS, RS, US, NEL, NBSP}

RECURSIVE LStrip(_)
LStrip(s) == IF s # <<>> /\ IsSpace(Head(s)) THEN LStrip(Tail(s)) ELSE s

RECURSIVE RStrip(_)
RStrip(s) ==
    IF s # <<>> /\ IsSpace(s[Len(s)]) THEN RStrip(SubSeq(s, 1, Len(s) - 1)) ELSE s

\* a strip of the left end only
Strip_Left(s) == LStrip(s)

\* completion.choices[0].message.content.strip()
Strip(s) == RStrip(LStrip(s))

\* least index >= from at which s holds the character c, or 0
RECURSIVE IndexFrom(_, _, _)
IndexFrom(s, c, from) ==
    IF from > Len(s) THEN 0
    ELSE IF s[from] = c THEN from
    ELSE IndexFrom(s, c, from + 1)

\* s.split('\n'): always at least one (possibly empty) piece
RECURSIVE Split(_)
Split(s) ==
    LET i == IndexFrom(s, "\n", 1)
    IN  IF i = 0 THEN <<s>>
        ELSE <<SubSeq(s, 1, i - 1)>> \o Split(SubSeq(s, i + 1, Len(s)))

(***************************************************************************)
(* datetime.strptime(s, "%H:%M %Y-%m-%d") and strftime of the same format  *)
(***************************************************************************)
DigitChars == <<"0", "1", "2", "3", "4", "5", "6", "7", "8", "9">>

DigitVal(c) == (CHOOSE n \in 1..10 : DigitChars[n] = c) - 1

\* int() of a string of digits, a leading blank ignored (int(" 5") = 5)
RECURSIVE ToInt(_)
ToInt(s) ==
    IF s = <<>> THEN 0
    ELSE IF s[1] = " " THEN ToInt(Tail(s))
    ELSE ToInt(SubSeq(s, 1, Len(s) - 1)) * 10 + DigitVal(s[Len(s)])

\* the directives' regular expressions, as _strptime.TimeRE defines them
\* %H: 2[0-3]|[0-1]\d|\d
MatchH(s) ==
    \/ Len(s) = 2 /\ s[1] = "2" /\ s[2] \in {"0", "1", "2", "3"}
    \/ Len(s) = 2 /\ s[1] \in {"0", "1"} /\ s[2] \in Digit
    \/ Len(s) = 1 /\ s[1] \in Digit

\* %M: [0-5]\d|\d
MatchM(s) ==
    \/ Len(s) = 2 /\ s[1] \in {"0", "1", "2", "3", "4", "5"} /\ s[2] \in Digit
    \/ Len(s) = 1 /\ s[1] \in Digit

\* %Y: \d\d\d\d
MatchY(s) == Len(s) = 4 /\ \A i \in 1..4 : s[i] \in Digit

\* %m: 1[0-2]|0[1-9]|[1-9]
Matchm(s) ==
    \/ Len(s) = 2 /\ s[1] = "1" /\ s[2] \in {"0", "1", "2"}
    \/ Len(s) = 2 /\ s[1] = "0" /\ s[2] \in Digit \ {"0"}
    \/ Len(s) = 1 /\ s[1] \in Digit \ {"0"}

\* %d: 3[0-1]|[1-2]\d|0[1-9]|[1-9]| [1-9]
Matchd(s) ==
    \/ Len(s) = 2 /\ s[1] = "3" /\ s[2] \in {"0", "1"}
    \/ Len(s) = 2 /\ s[1] \in {"1", "2"} /\ s[2] \in Digit
    \/ Len(s) = 2 /\ s[1] \in {"0", " "} /\ s[2] \in Digit \ {"0"}
    \/ Len(s) = 1 /\ s[1] \in Digit \ {"0"}

\* least index >= from of a white-space character (Len(s) + 1 if none)
RECURSIVE SpaceFrom(_, _)
SpaceFrom(s, from) ==
    IF from > Len(s) \/ IsSpace(s[from]) THEN from ELSE SpaceFrom(s, from + 1)

\* least index >= from of a character that is not white space
RECURSIVE NonSpaceFrom(_, _)
NonSpaceFrom(s, from) ==
    IF from > Len(s) \/ ~IsSpace(s[from]) THEN from ELSE NonSpaceFrom(s, from + 1)

IsLeap(y) == (y % 4 = 0 /\ y % 100 # 0) \/ y % 400 = 0

DaysInMonth(y, m) ==
    IF m = 2 THEN (IF IsLeap(y) THEN 29 ELSE 28)
    ELSE IF m \in {4, 6, 9, 11} THEN 30 ELSE 31

\* strptime's ValueError, as a value no datetime equals (MINYEAR is 1)
ValueError == [year |-> 0, month |-> 0, day |-> 0, hour |-> 0, minute |-> 0]

\* The format's blank stands for \s+; the whole string must be consumed;
\* the fields must then denote a date datetime accepts (MINYEAR = 1).
Strptime(s) ==
    LET c  == IndexFrom(s, ":", 1)
        sp == SpaceFrom(s, c + 1)
        y  == NonSpaceFrom(s, sp)
        p  == IndexFrom(s, "-", y + 5)
        H  == SubSeq(s, 1, c - 1)
        M  == SubSeq(s, c + 1, sp - 1)
        Y  == SubSeq(s, y, y + 3)
        mo == SubSeq(s, y + 5, p - 1)
        d  == SubSeq(s, p + 1, Len(s))
    IN  IF /\ c > 0
           /\ sp <= Len(s)
           /\ y + 4 <= Len(s)
           /\ s[y + 4] = "-"
           /\ p > 0
           /\ MatchH(H) /\ MatchM(M) /\ MatchY(Y) /\ Matchm(mo) /\ Matchd(d)
           /\ ToInt(Y) >= 1
           /\ ToInt(d) <= DaysInMonth(ToInt(Y), ToInt(mo))
        THEN [year |-> ToInt(Y), month |-> ToInt(mo), day |-> ToInt(d),
              hour |-> ToInt(H), minute |-> ToInt(M)]
        ELSE ValueError

\* decimal digits of n, no padding
RECURSIVE Dec(_)
Dec(n) == IF n < 10 THEN <<DigitChars[n + 1]>>
          ELSE Dec(n \div 10) \o <<DigitChars[(n % 10) + 1]>>

Pad2(n) == <<DigitChars[(n \div 10) + 1], DigitChars[(n % 10) + 1]>>

\* event_time.strftime('%H:%M %Y-%m-%d'); glibc's %Y does not pad the year
Strftime(t) ==
    Pad2(t.hour) \o <<":">> \o Pad2(t.minute) \o <<" ">> \o Dec(t.year)
        \o <<"-">> \o Pad2(t.month) \o <<"-">> \o Pad2(t.day)

(***************************************************************************)
(* Inputs                                                                  *)
(***************************************************************************)
Users == {"U1"}

\* the X-Line-Signature header of a request
Signatures == {"valid", "invalid", "missing"}

TimeA    == <<"1", "5", ":", "0", "0", " ", "2", "0", "2", "4", "-", "0", "6", "-", "0", "5">>
TimeB    == <<"9", ":", "5", NBSP, "2", "0", "2", "4", "-", "6", "-", "5">>
TimeFeb  == <<"1", "5", ":", "0", "0", " ", "2", "0", "2", "4", "-", "0", "2", "-", "3", "0">>
Meet     == <<"M", "e", "e", "t">>
Call     == <<"C", "a", "l", "l">>
NL       == <<"\n">>

\* what the language model may answer
OutPadded  == <<" ">> \o TimeA \o NL \o Meet \o <<NEL>> \o NL  \* two lines once stripped
OutLenient == TimeB \o NL \o Call     \* digits without padding, a no-break space
OutBadDate == TimeFeb \o NL \o Meet                  \* 30 February
OutBadTime == <<"3", "p", "m">> \o NL \o Meet        \* not a time
OutThree   == TimeA \o NL \o Meet \o NL \o Call      \* three lines
OutBlank   == NL                                     \* strips to nothing
OutTimeOnly == TimeA \o NL \o <<VT>>                  \* a time and a blank line

ModelOutputs ==
    {OutPadded, OutLenient, OutBadDate, OutBadTime, OutThree, OutBlank, OutTimeOnly}

(***************************************************************************)
(* State                                                                   *)
(***************************************************************************)
VARIABLES
    request,     \* request[r]: the signature header and event r of its body
    pc,          \* pc[r]: the statement the thread is about to run for event r
    frame,       \* frame[r]: the locals of handle_audio_message for event r
    response,    \* response[r]: the HTTP status the request of event r got
    replies,     \* replies[r]: the reply_message calls that succeeded for r
    temp_files,  \* the temporary audio files on disk, named by their event
    reminders,   \* the reminders table, in id order
    jobs,        \* jobs[r]: the scheduler job the handling of r registered
    pushes,      \* the push_message calls that succeeded, in order
    raised       \* raised[r]: the statement of handle_audio_message whose exception
                 \* ended the handling of event r (None when none did)

vars == <<request, pc, frame, response, replies, temp_files, reminders, jobs, pushes, raised>>

\* a datetime variable that is not bound
NoTime == [year |-> -1, month |-> 0, day |-> 0, hour |-> 0, minute |-> 0]

\* new_reminder is the id of the row once committed, 0 before
NoFrame == [user_id |-> None, completion |-> None, extracted_info |-> <<>>,
            event_time |-> NoTime, new_reminder |-> 0]

\* reminder is the id of the row the job's query returned, 0 for none
\* rid is the id of the row the registering handler committed and again
\* tells that send_reminder was called a second time with the job's
\* arguments (history only: send_reminder reads neither)
NoJob == [state |-> "none", run_date |-> NoTime, args |-> <<>>, reminder |-> 0,
          rid |-> 0, again |-> FALSE]

\* more tells that the body holds another event after this one: the events
\* of one body are consecutive
NoRequest == [signature |-> None, kind |-> None, more |-> FALSE]

\* the kind of an event: an audio message, which has a handler, or any
\* other event, which has none
EventKinds == {"audio", "text"}

\* the bodies of a webhook request: every sequence of events, one at least,
\* that the events left can hold
Bodies == UNION {[1..n -> EventKinds] : n \in 1..MaxRequests}

\* the first and the last event of the body that holds event q
RECURSIVE FirstOf(_, _)
FirstOf(req, q) == IF q > 1 /\ req[q - 1].more THEN FirstOf(req, q - 1) ELSE q

RECURSIVE LastOf(_, _)
LastOf(req, q) == IF req[q].more THEN LastOf(req, q + 1) ELSE q

Body(q) == FirstOf(request, q)..LastOf(request, q)

\* the request that carried event q has its response: callback has returned
\* or raised for the last of its events (a process that was stopped sends
\* none)
Answered(q) == \A e \in Body(q) : pc[e] \in {"returned", "dropped"}

InFlight == {"get_content", "save_audio", "write_audio", "transcribe", "extract", "parse",
             "insert", "schedule", "confirm", "apologize", "unlink"}

Running == {"pending", "query", "update"}

Init ==
    /\ request = [r \in Req |-> NoRequest]
    /\ pc = [r \in Req |-> "idle"]
    /\ frame = [r \in Req |-> NoFrame]
    /\ response = [r \in Req |-> None]
    /\ replies = [r \in Req |-> <<>>]
    /\ temp_files = {}
    /\ reminders = <<>>
    /\ jobs = [r \in Req |-> NoJob]
    /\ pushes = <<>>
    /\ raised = [r \in Req |-> None]

(***************************************************************************)
(* callback and handle_audio_message                                       *)
(***************************************************************************)
\* An exception leaves handle_audio_message, the loop of handler.handle
\* over the events of the body and callback, which catches
\* InvalidSignatureError only: Flask answers 500 and the events of the body
\* that were not reached are dropped.  The statement that raised is kept,
\* as the traceback Flask logs names it.
Propagate(r) ==
    /\ pc' = [q \in Req |-> IF q = r THEN "returned"
                            ELSE IF q \in Body(r) /\ pc[q] = "queued" THEN "dropped"
                            ELSE pc[q]]
    /\ frame' = [frame EXCEPT ![r] = NoFrame]
    /\ response' = [q \in Req |-> IF q \in Body(r) THEN 500 ELSE response[q]]
    /\ raised' = [raised EXCEPT ![r] = pc[r]]

\* a handler that catches the ValueError of strptime and apologizes
Raise_Apologize(r) ==
    IF pc[r] = "parse"
    THEN /\ pc' = [pc EXCEPT ![r] = "apologize"]
         /\ UNCHANGED <<frame, response, raised>>
    ELSE Propagate(r)

\* no statement of the program catches an exception of the handler
Raise(r) == Propagate(r)

\* The loop of handler.handle, having called the handler for event done (0
\* for none), goes through the events from..last of the body: an event that
\* is no audio message has no handler and is passed over, the handler is
\* called for the first audio message; when no event is left callback
\* returns 'OK'.
Dispatch(req, done, from, last, u) ==
    LET audio == {q \in from..last : req[q].kind = "audio"}
        n == IF audio = {} THEN 0 ELSE CHOOSE q \in audio : \A p \in audio : q <= p
    IN  /\ pc' = [q \in Req |->
                    IF q = done THEN "returned"
                    ELSE IF q = n THEN "get_content"
                    ELSE IF q \in from..last
                    THEN (IF n = 0 \/ q < n THEN "returned" ELSE "queued")
                    ELSE pc[q]]
        /\ frame' = [q \in Req |->
                    IF q = done THEN NoFrame
                    ELSE IF q = n THEN [NoFrame EXCEPT !.user_id = u]
                    ELSE frame[q]]
        /\ response' = [q \in Req |->
                    IF n = 0 /\ q \in FirstOf(req, last)..last THEN 200
                    ELSE response[q]]

\* a callback that lets every request through
ValidSignature_Unchecked(sig) == TRUE

\* handler.handle raises InvalidSignatureError unless the signature it is
\* given is that of the body
ValidSignature(sig) == sig = "valid"

\* callback.  request.headers['X-Line-Signature'] stands before the try: with
\* no such header it raises KeyError, which nothing catches, and Flask
\* answers 500.  Then the signature check of handler.handle, which comes
\* before the body is read as events (InvalidSignatureError, abort(400)),
\* and the dispatch of the first event.
callback(r) ==
    /\ pc[r] = "idle"
    /\ IF r = 1 THEN TRUE ELSE pc[r - 1] # "idle"
    /\ \E sig \in Signatures, body \in Bodies, u \in Users :
       LET last == r + Len(body) - 1
       IN  /\ last <= MaxRequests
           /\ IF sig = "missing"
              THEN /\ request' = [request EXCEPT ![r] =
                        [signature |-> sig, kind |-> body[1], more |-> FALSE]]
                   /\ pc' = [pc EXCEPT ![r] = "returned"]       \* KeyError
                   /\ response' = [response EXCEPT ![r] = 500]
                   /\ frame' = frame
              ELSE IF ~ValidSignature(sig)
              THEN /\ request' = [request EXCEPT ![r] =
                        [signature |-> sig, kind |-> body[1], more |-> FALSE]]
                   /\ pc' = [pc EXCEPT ![r] = "returned"]       \* abort(400)
                   /\ response' = [response EXCEPT ![r] = 400]
                   /\ frame' = frame
              ELSE LET req == [q \in Req |->
                                 IF q \in r..last
                                 THEN [signature |-> sig, kind |-> body[q - r + 1],
                                       more |-> q < last]
                                 ELSE request[q]]
                   IN  /\ request' = req
                       /\ Dispatch(req, 0, r, last, u)
    /\ UNCHANGED <<replies, temp_files, reminders, jobs, pushes, raised>>

\* line_bot_api.get_message_content(message_id)
get_message_content(r) ==
    /\ pc[r] = "get_content"
    /\ \/ /\ pc' = [pc EXCEPT ![r] = "save_audio"]
          /\ UNCHANGED <<frame, response>>
          /\ UNCHANGED raised
       \/ Raise(r)
    /\ UNCHANGED <<request, replies, temp_files, reminders, jobs, pushes>>

\* NamedTemporaryFile(delete=False, suffix='.m4a'): the file is on disk when
\* the call returns, and is not when it raises
save_audio(r) ==
    /\ pc[r] = "save_audio"
    /\ \/ /\ temp_files' = temp_files \cup {r}
          /\ pc' = [pc EXCEPT ![r] = "write_audio"]
          /\ UNCHANGED <<frame, response, raised>>
       \/ Raise(r) /\ UNCHANGED temp_files
    /\ UNCHANGED <<request, replies, reminders, jobs, pushes>>

\* the chunks of iter_content() written to the file, and its close
write_audio(r) ==
    /\ pc[r] = "write_audio"
    /\ \/ /\ pc' = [pc EXCEPT ![r] = "transcribe"]
          /\ UNCHANGED <<frame, response, raised>>
       \/ Raise(r)
    /\ UNCHANGED <<request, replies, temp_files, reminders, jobs, pushes>>

\* groq_client.audio.transcriptions.create
transcribe(r) ==
    /\ pc[r] = "transcribe"
    /\ \/ /\ pc' = [pc EXCEPT ![r] = "extract"]
          /\ UNCHANGED <<frame, response>>
          /\ UNCHANGED raised
       \/ Raise(r)
    /\ UNCHANGED <<request, replies, temp_files, reminders, jobs, pushes>>

\* groq_client.chat.completions.create, then strip and split
extract(r) ==
    /\ pc[r] = "extract"
    /\ \/ /\ \E o \in ModelOutputs :
                frame' = [frame EXCEPT ![r].completion = o,
                                       ![r].extracted_info = Split(Strip(o))]
          /\ pc' = [pc EXCEPT ![r] = "parse"]
          /\ UNCHANGED <<response, raised>>
       \/ Raise(r)
    /\ UNCHANGED <<request, replies, temp_files, reminders, jobs, pushes>>

\* a branch that takes the first two of several lines
TwoFields_AtLeast(extracted_info) == Len(extracted_info) >= 2

\* if len(extracted_info) == 2
TwoFields(extracted_info) == Len(extracted_info) = 2

\* the branch, and on the success branch strptime
parse(r) ==
    /\ pc[r] = "parse"
    /\ IF TwoFields(frame[r].extracted_info)
       THEN LET t == Strptime(frame[r].extracted_info[1])
            IN  IF t = ValueError
                THEN Raise(r)
                ELSE /\ frame' = [frame EXCEPT ![r].event_time = t]
                     /\ pc' = [pc EXCEPT ![r] = "insert"]
                     /\ UNCHANGED <<response, raised>>
       ELSE /\ pc' = [pc EXCEPT ![r] = "apologize"]
            /\ UNCHANGED <<frame, response, raised>>
    /\ UNCHANGED <<request, replies, temp_files, reminders, jobs, pushes>>

\* a row that loses the content
NewReminder_NoContent(id, user_id, event_time, event_content) ==
    [id |-> id, user_id |-> user_id, event_time |-> event_time,
     event_content |-> <<>>, is_sent |-> FALSE]

\* Reminder(user_id=..., event_time=..., event_content=...): is_sent defaults
\* to False and the id is the next row id.
NewReminder(id, user_id, event_time, event_content) ==
    [id |-> id, user_id |-> user_id, event_time |-> event_time,
     event_content |-> event_content, is_sent |-> FALSE]

\* an insert under a uniqueness constraint on the tuple: the row that is
\* there already is taken
insert_Unique(r) ==
    /\ pc[r] = "insert"
    /\ \/ LET same == {i \in 1..Len(reminders) :
                         /\ reminders[i].user_id = frame[r].user_id
                         /\ reminders[i].event_time = frame[r].event_time
                         /\ reminders[i].event_content = frame[r].extracted_info[2]}
              id == IF same = {} THEN Len(reminders) + 1 ELSE CHOOSE i \in same : TRUE
          IN  /\ reminders' = IF same # {} THEN reminders
                              ELSE Append(reminders,
                                      NewReminder(id, frame[r].user_id, frame[r].event_time,
                                                  frame[r].extracted_info[2]))
              /\ frame' = [frame EXCEPT ![r].new_reminder = id]
              /\ pc' = [pc EXCEPT ![r] = "schedule"]
              /\ UNCHANGED <<response, raised>>
       \/ Raise(r) /\ UNCHANGED reminders
    /\ UNCHANGED <<request, replies, temp_files, jobs, pushes>>

\* a session.add whose commit is left for later
insert_Deferred(r) ==
    /\ pc[r] = "insert"
    /\ \/ /\ frame' = [frame EXCEPT ![r].new_reminder = Len(reminders) + 1]
          /\ pc' = [pc EXCEPT ![r] = "schedule"]
          /\ UNCHANGED <<response, raised>>
       \/ Raise(r)
    /\ UNCHANGED <<request, replies, temp_files, reminders, jobs, pushes>>

\* session.add(new_reminder); session.commit()
insert(r) ==
    /\ pc[r] = "insert"
    /\ \/ LET id == Len(reminders) + 1
          IN  /\ reminders' = Append(reminders,
                    NewReminder(id, frame[r].user_id, frame[r].event_time,
                                frame[r].extracted_info[2]))
              /\ frame' = [frame EXCEPT ![r].new_reminder = id]
              /\ pc' = [pc EXCEPT ![r] = "schedule"]
              /\ UNCHANGED <<response, raised>>
       \/ Raise(r) /\ UNCHANGED reminders
    /\ UNCHANGED <<request, replies, temp_files, jobs, pushes>>

\* a job registered for the day, not the minute
NewJob_DateOnly(rid, user_id, event_time, event_content) ==
    [state |-> "pending",
     run_date |-> [event_time EXCEPT !.hour = 0, !.minute = 0],
     args |-> <<user_id, event_time, event_content>>, reminder |-> 0,
     rid |-> rid, again |-> FALSE]

\* the 'date' job add_job registers
NewJob(rid, user_id, event_time, event_content) ==
    [state |-> "pending", run_date |-> event_time,
     args |-> <<user_id, event_time, event_content>>, reminder |-> 0,
     rid |-> rid, again |-> FALSE]

\* scheduler.add_job(send_reminder, 'date', run_date=event_time, args=[...])
add_job(r) ==
    /\ pc[r] = "schedule"
    /\ \/ /\ jobs' = [jobs EXCEPT ![r] =
                NewJob(frame[r].new_reminder, frame[r].user_id,
                       frame[r].event_time, frame[r].extracted_info[2])]
          /\ pc' = [pc EXCEPT ![r] = "confirm"]
          /\ UNCHANGED <<frame, response>>
          /\ UNCHANGED raised
       \/ Raise(r) /\ UNCHANGED jobs
    /\ UNCHANGED <<request, replies, temp_files, reminders, pushes>>

\* f"Reminder set for {event_time_str}: {event_content}", as its parts
ConfirmText(event_time_str, event_content) ==
    <<"Reminder set for ", event_time_str, ": ", event_content>>

ApologyText == <<"Sorry, I couldn't understand the event details. Please try again.">>

\* a success branch that falls through to the else branch
reply_confirm_FallThrough(r) ==
    /\ pc[r] = "confirm"
    /\ \/ /\ replies' = [replies EXCEPT ![r] = Append(@,
                ConfirmText(frame[r].extracted_info[1], frame[r].extracted_info[2]))]
          /\ pc' = [pc EXCEPT ![r] = "apologize"]
          /\ UNCHANGED <<frame, response, raised>>
       \/ Raise(r) /\ UNCHANGED replies
    /\ UNCHANGED <<request, temp_files, reminders, jobs, pushes>>

\* reply_message on the success branch
reply_confirm(r) ==
    /\ pc[r] = "confirm"
    /\ \/ /\ replies' = [replies EXCEPT ![r] = Append(@,
                ConfirmText(frame[r].extracted_info[1], frame[r].extracted_info[2]))]
          /\ pc' = [pc EXCEPT ![r] = "unlink"]
          /\ UNCHANGED <<frame, response>>
          /\ UNCHANGED raised
       \/ Raise(r) /\ UNCHANGED replies
    /\ UNCHANGED <<request, temp_files, reminders, jobs, pushes>>

\* reply_message on the else branch
reply_apology(r) ==
    /\ pc[r] = "apologize"
    /\ \/ /\ replies' = [replies EXCEPT ![r] = Append(@, ApologyText)]
          /\ pc' = [pc EXCEPT ![r] = "unlink"]
          /\ UNCHANGED <<frame, response>>
          /\ UNCHANGED raised
       \/ Raise(r) /\ UNCHANGED replies
    /\ UNCHANGED <<request, temp_files, reminders, jobs, pushes>>

\* os.unlink(temp_audio_path), then the next event of the body or, after
\* the last, callback's return 'OK'.  When os.unlink
\* raises, the file is gone already (another process removed it) or it
\* cannot be removed and stays.
unlink(r) ==
    /\ pc[r] = "unlink"
    /\ \/ /\ temp_files' = temp_files \ {r}
          /\ \E u \in Users : Dispatch(request, r, r + 1, LastOf(request, r), u)
          /\ UNCHANGED raised
       \/ /\ Raise(r)
          /\ \E gone \in BOOLEAN :
                temp_files' = IF gone THEN temp_files \ {r} ELSE temp_files
    /\ UNCHANGED <<request, replies, reminders, jobs, pushes>>

(***************************************************************************)
(* send_reminder, run by the scheduler                                     *)
(***************************************************************************)
\* f"Reminder: {event_time.strftime('%H:%M %Y-%m-%d')} - {event_content}"
PushText(event_time, event_content) ==
    <<"Reminder: ", Strftime(event_time), " - ", event_content>>

\* a filter that forgets is_sent=False
Matches_AnySent(rem, args) ==
    /\ rem.user_id = args[1]
    /\ rem.event_time = args[2]
    /\ rem.event_content = args[3]

\* a filter on the user alone
Matches_UserOnly(rem, args) ==
    /\ rem.user_id = args[1]
    /\ rem.is_sent = FALSE

\* filter_by(user_id=, event_time=, event_content=, is_sent=False)
Matches(rem, args) ==
    /\ rem.user_id = args[1]
    /\ rem.event_time = args[2]
    /\ rem.event_content = args[3]
    /\ rem.is_sent = FALSE

\* .first(): the matching row of least id, or 0 for None
First(args) ==
    LET hits == {i \in 1..Len(reminders) : Matches(reminders[i], args)}
    IN  IF hits = {} THEN 0 ELSE CHOOSE i \in hits : \A j \in hits : i <= j

\* a call that goes on when the push has failed
AfterPush_Swallowed(pushed) == "query"

\* a job that waits for its next run after the push, as an 'interval' job
AfterPush_Recurring(pushed) == "pending"

\* where send_reminder goes after push_message: an exception ends the call
AfterPush(pushed) == IF pushed THEN "query" ELSE "push_failed"

\* line_bot_api.push_message(user_id, TextSendMessage(...)), the first
\* statement of send_reminder
push_message(r, again) ==
    \/ /\ pushes' = Append(pushes,
             [to |-> jobs[r].args[1],
              text |-> PushText(jobs[r].args[2], jobs[r].args[3])])
       /\ jobs' = [jobs EXCEPT ![r].state = AfterPush(TRUE), ![r].again = again]
    \/ /\ jobs' = [jobs EXCEPT ![r].state = AfterPush(FALSE), ![r].again = again]
       /\ UNCHANGED pushes

\* The job's run time comes.  A 'date' job whose run time had passed by more
\* than the misfire grace time when the scheduler looked at it is dropped
\* without a call; otherwise the scheduler calls send_reminder.
fire(r) ==
    /\ jobs[r].state = "pending"
    /\ \/ /\ jobs' = [jobs EXCEPT ![r].state = "missed"]
          /\ UNCHANGED pushes
       \/ push_message(r, FALSE)
    /\ UNCHANGED <<request, pc, frame, response, replies, temp_files, reminders>>
    /\ UNCHANGED raised

\* session.query(Reminder).filter_by(...).first(); when the SELECT raises
\* (the database is locked), the call of send_reminder ends there
query(r) ==
    /\ jobs[r].state = "query"
    /\ \/ LET found == First(jobs[r].args)
          IN  jobs' = [jobs EXCEPT ![r].state = IF found = 0 THEN "done" ELSE "update",
                                   ![r].reminder = found]
       \/ jobs' = [jobs EXCEPT ![r].state = "db_failed"]
    /\ UNCHANGED <<request, pc, frame, response, replies, temp_files, reminders, pushes>>
    /\ UNCHANGED raised

\* an update that flips the flag
MarkSent_Toggle(rem) == [rem EXCEPT !.is_sent = ~@]

\* reminder.is_sent = True
MarkSent(rem) == [rem EXCEPT !.is_sent = TRUE]

\* an UPDATE of every row with the tuple instead of the row read
update_All(r) ==
    /\ jobs[r].state = "update"
    /\ reminders' = [i \in 1..Len(reminders) |->
                        IF /\ reminders[i].user_id = jobs[r].args[1]
                           /\ reminders[i].event_time = jobs[r].args[2]
                           /\ reminders[i].event_content = jobs[r].args[3]
                        THEN MarkSent(reminders[i]) ELSE reminders[i]]
    /\ jobs' = [jobs EXCEPT ![r].state = "done"]
    /\ UNCHANGED <<request, pc, frame, response, replies, temp_files, pushes, raised>>

\* reminder.is_sent = True; session.commit(); when the commit raises, the
\* row is not written and the call of send_reminder ends there
update(r) ==
    /\ jobs[r].state = "update"
    /\ \/ /\ reminders' = [reminders EXCEPT ![jobs[r].reminder] = MarkSent(@)]
          /\ jobs' = [jobs EXCEPT ![r].state = "done"]
       \/ /\ jobs' = [jobs EXCEPT ![r].state = "db_failed"]
          /\ UNCHANGED reminders
    /\ UNCHANGED <<request, pc, frame, response, replies, temp_files, pushes>>
    /\ UNCHANGED raised

\* a job store that is persistent: a pending job is there after a restart
AfterRestart_Persistent(state) ==
    IF state \in {"query", "update"} THEN "interrupted" ELSE state

\* BackgroundScheduler() keeps its jobs in memory: a job that waits for its
\* run time is lost with the process, and a call of send_reminder that was
\* running is cut short; nothing at startup registers jobs.
AfterRestart(state) ==
    IF state = "pending" THEN "lost"
    ELSE IF state \in {"query", "update"} THEN "interrupted"
    ELSE state

\* The process stops and starts again: its threads and the in-memory job
\* store are gone, the table and the files on disk stay.
restart ==
    /\ \E r \in Req : pc[r] \in InFlight \/ jobs[r].state \in Running
    /\ pc' = [r \in Req |-> IF pc[r] \in InFlight THEN "killed"
                            ELSE IF pc[r] = "queued" THEN "dropped"
                            ELSE pc[r]]
    /\ frame' = [r \in Req |-> IF pc[r] \in InFlight THEN NoFrame ELSE frame[r]]
    /\ jobs' = [r \in Req |-> [jobs[r] EXCEPT !.state = AfterRestart(@)]]
    /\ UNCHANGED <<request, response, replies, temp_files, reminders, pushes>>
    /\ UNCHANGED raised

\* a step of a handler thread or of a job
Run ==
    \E r \in Req :
          \/ callback(r)
          \/ get_message_content(r)
          \/ save_audio(r)
          \/ write_audio(r)
          \/ transcribe(r)
          \/ extract(r)
          \/ parse(r)
          \/ insert(r)
          \/ add_job(r)
          \/ reply_confirm(r)
          \/ reply_apology(r)
          \/ unlink(r)
          \/ fire(r)
          \/ query(r)
          \/ update(r)

Next == Run \/ restart

Spec == Init /\ [][Next]_vars

\* send_reminder called once more with the arguments of a call that has
\* returned, as a test of the delivery step calls it
call_again(r) ==
    /\ jobs[r].state = "done"
    /\ ~jobs[r].again
    /\ push_message(r, TRUE)
    /\ UNCHANGED <<request, pc, frame, response, replies, temp_files, reminders>>
    /\ UNCHANGED raised

NextTwice == Run \/ \E r \in Req : call_again(r)

\* the running process, and second calls of send_reminder
SpecTwice == Init /\ [][NextTwice]_vars

(***************************************************************************)
(* Properties                                                              *)
(***************************************************************************)
\* the statements at which completion and extracted_info are bound
Extracted == {"parse", "insert", "schedule", "confirm", "apologize", "unlink"}

\* the lines of the model output of request r, from the raw output
Lines(r) == Split(Strip(frame[r].completion))

\* the output of request r has two lines, the first a time strptime accepts
WellFormed(r) == Len(Lines(r)) = 2 /\ Strptime(Lines(r)[1]) # ValueError

\* rem carries the (user_id, event_time, event_content) of args
SameTuple(rem, args) ==
    /\ rem.user_id = args[1]
    /\ rem.event_time = args[2]
    /\ rem.event_content = args[3]

Ids == 1..Len(reminders)

\* C1: an audio event whose stripped model output has exactly two lines, the
\* first a time of the format, goes on to the insert; the insert persists
\* exactly one new reminder, with is_sent = false and the event's values; and
\* once add_job has returned the request has one job, whose run time is
\* exactly the parsed event_time.
C1_PersistedAndScheduled ==
    /\ [][\A r \in Req :
            /\ (pc[r] = "parse" /\ WellFormed(r))
                  => pc'[r] \in {"parse", "insert", "killed"}
            /\ (pc[r] = "insert" /\ pc'[r] = "schedule")
                  => reminders' = Append(reminders,
                        [id |-> Len(reminders) + 1,
                         user_id |-> frame[r].user_id,
                         event_time |-> Strptime(Lines(r)[1]),
                         event_content |-> Lines(r)[2],
                         is_sent |-> FALSE])]_vars
    /\ [](\A r \in Req :
            pc[r] \in {"confirm", "unlink"} /\ WellFormed(r)
               => /\ jobs[r].state # "none"
                  /\ jobs[r].run_date = Strptime(Lines(r)[1])
                  /\ jobs[r].rid = frame[r].new_reminder
                  /\ frame[r].new_reminder \in Ids)

\* a request has replied to a well-formed output: its reminder is in the
\* table and its job waits for exactly the parsed time
C1_Witness ==
    \E r \in Req :
       /\ pc[r] = "unlink"
       /\ WellFormed(r)
       /\ jobs[r].state = "pending"
       /\ jobs[r].run_date = Strptime(Lines(r)[1])
       /\ reminders[frame[r].new_reminder].is_sent = FALSE

\* C2: while an audio event whose stripped model output does not split into
\* exactly two lines is handled, no reminder is added and no job registered,
\* no exception is raised by the branch, the only reply sent is the fixed
\* apology, and when os.unlink does not raise the handler ends with the file
\* removed, and the request with 200 when no audio event follows in its
\* body.
C2_ApologyOnly ==
    /\ [](\A r \in Req :
            pc[r] \in Extracted /\ Len(Lines(r)) # 2
               => /\ pc[r] \in {"parse", "apologize", "unlink"}
                  /\ frame[r].new_reminder = 0
                  /\ jobs[r].state = "none"
                  /\ response[r] = None
                  /\ replies[r] = IF pc[r] = "unlink" THEN <<ApologyText>> ELSE <<>>)
    /\ [][\A r \in Req :
            pc[r] \in Extracted /\ Len(Lines(r)) # 2
               => /\ pc'[r] \notin {pc[r], "killed"}
                        => reminders' = reminders /\ jobs' = jobs
                  /\ pc[r] = "parse" => pc'[r] \in {"parse", "apologize", "killed"}
                  /\ pc[r] = "unlink" /\ pc'[r] = "returned" /\ raised'[r] = None
                        => /\ r \notin temp_files'
                           /\ (\A q \in Body(r) : q > r => request[q].kind # "audio")
                                 => response'[r] = 200]_vars

\* the apology has been sent for a three-line output
C2_Witness ==
    \E r \in Req :
       /\ pc[r] = "unlink"
       /\ frame[r].completion = OutThree
       /\ replies[r] = <<ApologyText>>
       /\ reminders = <<>>

\* the records that carry the tuple of args, sent or not
WithTuple(args) == {i \in Ids : SameTuple(reminders[i], args)}

\* C3 as stated: a second call of send_reminder with the same arguments
\* finds no matching unsent record (it never comes to mark a record).
C3_SecondCallNoOp ==
    \A r \in Req : jobs[r].again => jobs[r].state # "update"

\* C3 amended: when send_reminder is called twice with the tuple of a record
\* that is the only record with that tuple, that record is sent after the
\* first call, the second call finds no matching unsent record and changes
\* no record; when other records share the tuple, what the second call finds
\* is an unsent record with that tuple other than one already sent.
C3_SecondCallNoOpIfUnique ==
    /\ [](\A r \in Req :
            jobs[r].again
               => /\ Cardinality(WithTuple(jobs[r].args)) = 1
                     => /\ jobs[r].state # "update"
                        /\ \A i \in WithTuple(jobs[r].args) : reminders[i].is_sent
                  /\ jobs[r].state = "update"
                     => /\ jobs[r].reminder \in WithTuple(jobs[r].args)
                        /\ Cardinality(WithTuple(jobs[r].args)) > 1)
    /\ [][\A r \in Req :
            /\ jobs[r].again /\ Cardinality(WithTuple(jobs[r].args)) = 1
                  => \A i \in WithTuple(jobs[r].args) : reminders'[i] = reminders[i]
            /\ jobs[r].again /\ jobs[r].state = "query" /\ jobs'[r].state = "update"
                  => ~reminders[jobs'[r].reminder].is_sent]_vars

\* a second call has returned without finding a record to mark
C3_Witness ==
    \E r \in Req :
       /\ jobs[r].again
       /\ jobs[r].state = "done"
       /\ jobs[r].reminder = 0
       /\ Cardinality(WithTuple(jobs[r].args)) = 1
       /\ reminders[jobs[r].rid].is_sent

\* C4: no step turns is_sent of a reminder from true back to false (so it
\* goes from false to true at most once), and no reminder leaves the table.
C4_NeverUnsent ==
    [][\A i \in Ids :
          reminders[i].is_sent => i <= Len(reminders') /\ reminders'[i].is_sent]_vars

\* a reminder is sent while another request is still being handled
C4_Witness ==
    \E i \in Ids, r \in Req : reminders[i].is_sent /\ pc[r] \in InFlight

\* C5 as stated: the record of a reminder whose job's push failed stays
\* is_sent = false, whatever follows.
C5_FailedPushStaysUnsent ==
    \A r \in Req :
       jobs[r].state = "push_failed" => ~reminders[jobs[r].rid].is_sent

\* C5 amended: a run of send_reminder whose push failed goes no further and
\* changes no record; the reminder's record stays is_sent = false unless the
\* job of another reminder with the same (user_id, event_time, event_content)
\* marks it.
C5_FailedPushUnsentUnlessTwin ==
    /\ [][\A r \in Req :
            /\ jobs[r].state = "push_failed" => jobs'[r] = jobs[r]
            /\ jobs[r].state = "pending" /\ jobs'[r].state = "push_failed"
                  => reminders' = reminders /\ pushes' = pushes]_vars
    /\ [](\A r \in Req :
            jobs[r].state = "push_failed" /\ reminders[jobs[r].rid].is_sent
               => \E q \in Req \ {r} :
                     /\ jobs[q].args = jobs[r].args
                     /\ jobs[q].state = "done")

\* the push of a job failed, its record is unsent, and the job of a reminder
\* with another tuple has marked that one's record
C5_Witness ==
    \E r \in Req, q \in Req :
       /\ jobs[r].state = "push_failed"
       /\ ~reminders[jobs[r].rid].is_sent
       /\ jobs[q].state = "done"
       /\ jobs[q].args # jobs[r].args
       /\ reminders[jobs[q].rid].is_sent

\* C6 as stated: once the handling of a request has ended, however it ended,
\* its temporary audio file is gone.
C6_TempFileRemoved ==
    \A r \in Req : pc[r] = "returned" => r \notin temp_files

\* C7: a reminder carries the sender of the event that created it, the time
\* strptime reads from line 1 of that event's stripped output and line 2 of
\* it (15:00 on 5 June 2024 and "Meet" for " 15:00 2024-06-05\nMeet\x85\n");
\* and no step changes a reminder's user_id, event_time or event_content.
C7_RoundTrip ==
    /\ [](\A r \in Req :
            frame[r].new_reminder # 0
               => LET rem == reminders[frame[r].new_reminder]
                  IN  /\ rem.id = frame[r].new_reminder
                      /\ rem.user_id = frame[r].user_id
                      /\ rem.user_id \in Users
                      /\ rem.event_time = Strptime(Lines(r)[1])
                      /\ rem.event_content = Lines(r)[2]
                      /\ frame[r].completion = OutPadded
                            => /\ rem.event_time = [year |-> 2024, month |-> 6,
                                     day |-> 5, hour |-> 15, minute |-> 0]
                               /\ rem.event_content = Meet)
    /\ [][\A i \in Ids :
            /\ i <= Len(reminders')
            /\ reminders'[i].id = reminders[i].id
            /\ reminders'[i].user_id = reminders[i].user_id
            /\ reminders'[i].event_time = reminders[i].event_time
            /\ reminders'[i].event_content = reminders[i].event_content]_vars

\* the reminder of an output written without padding is in the table, has
\* been marked sent, and its request is still being handled
C7_Witness ==
    \E r \in Req :
       /\ frame[r].new_reminder # 0
       /\ frame[r].completion = OutLenient
       /\ reminders[frame[r].new_reminder].event_time
             = [year |-> 2024, month |-> 6, day |-> 5, hour |-> 9, minute |-> 5]
       /\ reminders[frame[r].new_reminder].event_content = Call
       /\ reminders[frame[r].new_reminder].is_sent

\* C8: a request whose signature is invalid is answered 400 in the step that
\* takes it, and nothing else is done for it: no file, no reminder, no job,
\* no reply, no push.  (A request without the signature header is not
\* processed either, but it is answered 500.)
C8_InvalidSignature ==
    /\ [](\A r \in Req :
            request[r].signature \in {"invalid", "missing"}
               => /\ pc[r] = "returned"
                  /\ response[r] = IF request[r].signature = "invalid" THEN 400 ELSE 500
                  /\ frame[r].user_id = None
                  /\ frame[r].new_reminder = 0
                  /\ replies[r] = <<>>
                  /\ jobs[r].state = "none"
                  /\ r \notin temp_files)
    /\ [][\A r \in Req :
            request[r].signature = None
            /\ request'[r].signature \in {"invalid", "missing"}
               => /\ reminders' = reminders
                  /\ pushes' = pushes
                  /\ jobs' = jobs
                  /\ replies' = replies
                  /\ temp_files' = temp_files]_vars

\* an audio event with an invalid signature has been answered
C8_Witness ==
    \E r \in Req :
       /\ request[r].signature = "invalid"
       /\ request[r].kind = "audio"
       /\ response[r] = 400

\* C9 as stated: a request with a valid signature that has been answered was
\* answered 200.
C9_ValidAnswered200 ==
    \A r \in Req :
       request[r].signature = "valid" /\ Answered(r) => response[r] = 200

\* the pushes made for the tuple of a reminder
PushesFor(rem) ==
    {k \in 1..Len(pushes) :
        /\ pushes[k].to = rem.user_id
        /\ pushes[k].text = PushText(rem.event_time, rem.event_content)}

\* C10: a run of send_reminder that has come to its query or beyond has
\* pushed the message of its arguments, and every reminder with is_sent =
\* true has a push of the message of exactly its user_id, event_time and
\* event_content before it.
C10_PushBeforeSent ==
    /\ \A r \in Req :
          jobs[r].state \in {"query", "update", "done"}
             => \E k \in 1..Len(pushes) :
                   /\ pushes[k].to = jobs[r].args[1]
                   /\ pushes[k].text = PushText(jobs[r].args[2], jobs[r].args[3])
    /\ \A i \in Ids : reminders[i].is_sent => PushesFor(reminders[i]) # {}

\* two reminders with different tuples are sent, each after its own push
C10_Witness ==
    \E i \in Ids, j \in Ids :
       /\ reminders[i].is_sent /\ reminders[j].is_sent
       /\ reminders[i].event_time # reminders[j].event_time
       /\ PushesFor(reminders[i]) # {} /\ PushesFor(reminders[j]) # {}
       /\ PushesFor(reminders[i]) \cap PushesFor(reminders[j]) = {}

\* the output of request r has two lines, the first a time strptime rejects
IllFormed(r) == Len(Lines(r)) = 2 /\ Strptime(Lines(r)[1]) = ValueError

\* C11: when the stripped model output has exactly two lines and strptime
\* rejects the first ("3pm", or 30 February), the statement that parses it
\* raises and the request ends there with 500: no reminder is added, no job
\* registered and no reply sent, neither the confirmation nor the apology.
C11_BadTimeFailsRequest ==
    /\ [](\A r \in Req :
            /\ pc[r] \in Extracted /\ frame[r].completion \in {OutBadTime, OutBadDate}
                  => IllFormed(r)
            /\ pc[r] \in Extracted /\ IllFormed(r)
                  => /\ pc[r] = "parse"
                     /\ frame[r].new_reminder = 0
                     /\ jobs[r].state = "none"
                     /\ replies[r] = <<>>
            /\ raised[r] = "parse"
                  => /\ pc[r] = "returned"
                     /\ response[r] = 500
                     /\ jobs[r].state = "none"
                     /\ replies[r] = <<>>)
    /\ [][\A r \in Req :
            pc[r] = "parse" /\ IllFormed(r)
               => /\ pc'[r] \in {"parse", "returned", "killed"}
                  /\ pc'[r] = "returned"
                        => /\ raised'[r] = "parse"
                           /\ reminders' = reminders
                           /\ jobs' = jobs
                           /\ replies' = replies]_vars

\* the first request failed in strptime: 500, the table is empty, there is
\* no job and no reply
C11_Witness ==
    /\ raised[1] = "parse"
    /\ response[1] = 500
    /\ reminders = <<>>
    /\ jobs[1].state = "none"
    /\ replies[1] = <<>>
    /\ pc[2] = "idle"

\* C12: every step that adds a reminder adds one, for a request at its
\* insert whose output yielded exactly two fields, both non-empty; and every
\* reminder in the table has an event_content that is not empty (it ends in
\* a character that is not white space).
C12_TwoNonEmptyFields ==
    /\ [][Len(reminders') # Len(reminders)
            => /\ Len(reminders') = Len(reminders) + 1
               /\ \E r \in Req :
                     /\ pc[r] = "insert" /\ pc'[r] = "schedule"
                     /\ Len(frame[r].extracted_info) = 2
                     /\ Len(frame[r].extracted_info[1]) > 0
                     /\ Len(frame[r].extracted_info[2]) > 0
                     /\ reminders'[Len(reminders')].event_content
                           = frame[r].extracted_info[2]]_vars
    /\ [](\A i \in Ids :
            /\ Len(reminders[i].event_content) > 0
            /\ ~IsSpace(reminders[i].event_content[Len(reminders[i].event_content)]))

\* a request whose output was a time and a blank line has been answered
\* with the apology after another request's reminder was added
C12_Witness ==
    \E r \in Req :
       /\ pc[r] = "unlink"
       /\ frame[r].completion = OutTimeOnly
       /\ replies[r] = <<ApologyText>>
       /\ Len(reminders) = 1
       /\ reminders[1].event_content = Meet

\* the requests that registered a job with the arguments args
Scheduled(args) == {q \in Req : jobs[q].state # "none" /\ jobs[q].args = args}

\* C13: the requests that were handled up to add_job with the same
\* (user_id, event_time, event_content) each have a record of their own with
\* that tuple and a job of their own: N such requests, N records with
\* distinct ids, N jobs; an insert adds a row also when the table holds a
\* row with the same tuple.
C13_NotDeduplicated ==
    /\ [](/\ \A i \in Ids : reminders[i].id = i
          /\ \A r \in Req :
                jobs[r].state # "none"
                   => /\ jobs[r].rid \in WithTuple(jobs[r].args)
                      /\ \A q \in Scheduled(jobs[r].args) \ {r} :
                            jobs[q].rid # jobs[r].rid
                      /\ Cardinality({jobs[q].rid : q \in Scheduled(jobs[r].args)})
                            = Cardinality(Scheduled(jobs[r].args))
                      /\ Cardinality(WithTuple(jobs[r].args))
                            >= Cardinality(Scheduled(jobs[r].args)))
    /\ [][\A r \in Req :
            pc[r] = "insert" /\ pc'[r] = "schedule"
               => Len(reminders') = Len(reminders) + 1]_vars

\* every request was handled with the same tuple: as many records with it
\* and as many jobs as requests
C13_Witness ==
    /\ \A r \in Req : pc[r] = "returned" /\ Answered(r) /\ response[r] = 200
    /\ Cardinality(Scheduled(jobs[1].args)) = MaxRequests
    /\ Cardinality(WithTuple(jobs[1].args)) = MaxRequests
    /\ Len(reminders) = MaxRequests

\* the states of a job whose call of send_reminder has pushed
Pushed == {"query", "update", "done", "interrupted", "db_failed"}

\* C14 as stated: the record of a reminder whose job was lost in a restart
\* before it fired stays is_sent = false.
C14_LostJobStaysUnsent ==
    \A r \in Req : jobs[r].state = "lost" => ~reminders[jobs[r].rid].is_sent

\* C14 amended: a restart leaves no job waiting and no call of send_reminder
\* running, and a job lost before it fired stays lost: it never pushes.  The
\* pushes for a tuple are at most the jobs with that tuple that fired, and
\* the record of a lost job stays is_sent = false unless the job of another
\* reminder with the same tuple has marked it.
C14_LostJobUnsentUnlessTwin ==
    /\ [][/\ restart => \A r \in Req : jobs'[r].state \notin Running
          /\ \A r \in Req :
                /\ jobs[r].state = "lost" => jobs'[r] = jobs[r]
                /\ jobs[r].state = "pending" /\ jobs'[r].state = "lost"
                      => pushes' = pushes /\ reminders' = reminders]_vars
    /\ [](\A r \in Req :
            jobs[r].state = "lost"
               => /\ Cardinality(PushesFor(reminders[jobs[r].rid]))
                        <= Cardinality({q \in Scheduled(jobs[r].args) :
                                           jobs[q].state \in Pushed})
                  /\ reminders[jobs[r].rid].is_sent
                        => \E q \in Scheduled(jobs[r].args) \ {r} :
                              /\ jobs[q].state = "done"
                              /\ jobs[q].reminder = jobs[r].rid)

\* a job was lost in a restart, nothing was pushed for it and its record is
\* unsent, while the reminder of a request made after the restart, with
\* another tuple, has been pushed and marked
C14_Witness ==
    /\ jobs[1].state = "lost"
    /\ PushesFor(reminders[jobs[1].rid]) = {}
    /\ ~reminders[jobs[1].rid].is_sent
    /\ jobs[2].state = "done"
    /\ jobs[2].args # jobs[1].args
    /\ reminders[jobs[2].rid].is_sent

\* the reply m is the confirmation
IsConfirmation(m) == m[1] = "Reminder set for "

\* C15: the handling of an event inserts, then schedules, then replies.  A
\* job is registered by a request that has committed its record, and that
\* record is in the table with the job's tuple for as long as the job is
\* known; the confirmation is sent by a request whose record is committed
\* and whose job is registered, and a request that has sent it has both.
C15_InsertScheduleReply ==
    /\ [](\A r \in Req :
            /\ jobs[r].state # "none"
                  => /\ jobs[r].rid \in Ids
                     /\ SameTuple(reminders[jobs[r].rid], jobs[r].args)
            /\ replies[r] # <<>> /\ IsConfirmation(replies[r][1])
                  => /\ jobs[r].state # "none"
                     /\ jobs[r].rid \in Ids
            /\ pc[r] \in {"schedule", "confirm"}
                  => /\ frame[r].new_reminder \in Ids
                     /\ replies[r] = <<>>
            /\ pc[r] \in {"parse", "insert", "schedule"} => jobs[r].state = "none")
    /\ [][\A r \in Req :
            /\ jobs[r].state = "none" /\ jobs'[r].state # "none"
                  => /\ pc[r] = "schedule" /\ pc'[r] = "confirm"
                     /\ frame[r].new_reminder \in Ids
                     /\ jobs'[r].rid = frame[r].new_reminder
                     /\ reminders' = reminders
            /\ replies'[r] # replies[r] /\ IsConfirmation(replies'[r][1])
                  => /\ pc[r] = "confirm"
                     /\ jobs[r].state # "none"
                     /\ jobs[r].rid \in Ids
            /\ pc[r] = "insert" => pc'[r] \in {"insert", "schedule", "returned", "killed"}
            /\ pc[r] = "schedule" => pc'[r] \in {"schedule", "confirm", "returned", "killed"}
            /\ pc[r] = "confirm" => pc'[r] \in {"confirm", "unlink", "returned", "killed"}]_vars

\* a request is about to send the confirmation: its record is committed and
\* its job registered, no reply has been sent
C15_Witness ==
    \E r \in Req :
       /\ pc[r] = "confirm"
       /\ replies[r] = <<>>
       /\ jobs[r].state = "pending"
       /\ jobs[r].rid = Len(reminders)
       /\ ~reminders[jobs[r].rid].is_sent

\* the records whose is_sent the step changes
Flipped == {i \in Ids : reminders'[i].is_sent # reminders[i].is_sent}

\* C16: no step removes a reminder or changes its id, user_id, event_time or
\* event_content.  A step changes is_sent of at most one record, and only
\* the update of a run of send_reminder does: the record is the one its
\* query returned, it carries the run's arguments, and every other record
\* is left as it was; the other steps of a run change no record.  The
\* apology branch changes neither the table nor the jobs.
C16_Frame ==
    [][/\ Len(reminders') >= Len(reminders)
       /\ \A i \in Ids :
             [reminders'[i] EXCEPT !.is_sent = FALSE]
                = [reminders[i] EXCEPT !.is_sent = FALSE]
       /\ Cardinality(Flipped) <= 1
       /\ \A i \in Flipped :
             \E r \in Req :
                /\ jobs[r].state = "update" /\ jobs'[r].state = "done"
                /\ jobs[r].reminder = i
                /\ SameTuple(reminders[i], jobs[r].args)
                /\ Len(reminders') = Len(reminders)
       /\ \A r \in Req :
             /\ jobs'[r] # jobs[r] /\ jobs[r].state # "update"
                   => reminders' = reminders
             /\ \/ pc[r] = "parse" /\ pc'[r] = "apologize"
                \/ pc[r] = "apologize" /\ pc'[r] \in {"unlink", "returned"}
                \/ /\ pc[r] = "unlink" /\ pc'[r] = "returned"
                   /\ ~IsConfirmation(replies[r][1])
                => reminders' = reminders /\ jobs' = jobs]_vars

\* a run of send_reminder has marked one of two records with its tuple and
\* left the other
C16_Witness ==
    \E r \in Req :
       /\ jobs[r].state = "done"
       /\ WithTuple(jobs[r].args) = {1, 2}
       /\ reminders[jobs[r].reminder].is_sent
       /\ \E i \in {1, 2} : ~reminders[i].is_sent

\* C17 as stated: when the process has not restarted, no push has failed,
\* every record has its job and every registered job has run send_reminder
\* to its end, every reminder in the table has is_sent = true.
C17_AllFiredAllSent ==
    (/\ \A r \in Req : pc[r] # "killed"
     /\ \A r \in Req : jobs[r].state \in {"none", "done"}
     /\ \A i \in Ids : \E r \in Req : jobs[r].state = "done" /\ jobs[r].rid = i)
       => \A i \in Ids : reminders[i].is_sent

\* the jobs registered for the record of id i
JobsOf(i) == {r \in Req : jobs[r].state # "none" /\ jobs[r].rid = i}

\* the arguments a job for the record rem is registered with
TupleOf(rem) == <<rem.user_id, rem.event_time, rem.event_content>>

\* C18: a job pushes once at most: a push is made by a job that waits for
\* its run time, and a job that has left that state never waits again.  No
\* record has two jobs, and every record has exactly one once add_job has
\* returned for it.  So the pushes made for a tuple are at most the jobs
\* with that tuple that fired, which are at most the records with it.
C18_NoDoublePush ==
    /\ [][/\ pushes' # pushes
                => /\ Len(pushes') = Len(pushes) + 1
                   /\ \E r \in Req :
                         /\ jobs[r].state = "pending" /\ jobs'[r].state = "query"
                         /\ pushes'[Len(pushes')].to = jobs[r].args[1]
                         /\ pushes'[Len(pushes')].text
                               = PushText(jobs[r].args[2], jobs[r].args[3])
          /\ \A r \in Req :
                jobs[r].state \notin {"none", "pending"} => jobs'[r].state # "pending"]_vars
    /\ [](/\ \A i \in Ids : Cardinality(JobsOf(i)) <= 1
          /\ (\A r \in Req : pc[r] \notin {"schedule", "killed"} /\ raised[r] # "schedule")
                => \A i \in Ids : Cardinality(JobsOf(i)) = 1
          /\ \A i \in Ids :
                LET fired == {q \in Scheduled(TupleOf(reminders[i])) :
                                 jobs[q].state \in Pushed}
                IN  /\ Cardinality(PushesFor(reminders[i])) <= Cardinality(fired)
                    /\ Cardinality(fired)
                          <= Cardinality(WithTuple(TupleOf(reminders[i])))
          /\ Len(pushes) <= Len(reminders))

\* two records carry the same tuple and the job of each has pushed: two
\* pushes for the tuple, and both runs are over
C18_Witness ==
    /\ Len(reminders) = 2
    /\ WithTuple(TupleOf(reminders[1])) = {1, 2}
    /\ Cardinality(PushesFor(reminders[1])) = 2
    /\ \A i \in {1, 2} : \E r \in JobsOf(i) : jobs[r].state = "done"

\* the handling of the audio event of request r ran to its end: no statement
\* raised (so a two-line output had a time strptime accepts) and the
\* process was not stopped
Handled(r) ==
    /\ request[r].signature = "valid"
    /\ request[r].kind = "audio"
    /\ pc[r] = "returned"
    /\ raised[r] = None

\* C19: a request is sent at most one reply, by its confirm or its
\* apologize statement.  When the handling of an audio event ran to its end
\* without an exception it sent exactly one (and its request is answered 200
\* when no event of the body raised): either the confirmation, and
\* then its record is in the table and its job registered, or the apology,
\* and then it registered no job; a request never holds both.
C19_OneReplyOneOutcome ==
    /\ [](\A r \in Req :
            /\ Len(replies[r]) <= 1
            /\ request[r].kind # "audio" => replies[r] = <<>>
            /\ Handled(r)
                  => /\ Len(replies[r]) = 1
                     /\ Answered(r) /\ (\A q \in Body(r) : raised[q] = None)
                           => response[r] = 200
                     /\ IF IsConfirmation(replies[r][1])
                        THEN /\ jobs[r].state # "none"
                             /\ jobs[r].rid \in Ids
                             /\ replies[r][1][4] = jobs[r].args[3]
                        ELSE /\ replies[r] = <<ApologyText>>
                             /\ jobs[r].state = "none")
    /\ [][\A r \in Req :
            replies'[r] # replies[r]
               => /\ replies[r] = <<>>
                  /\ Len(replies'[r]) = 1
                  /\ pc'[r] = "unlink"
                  /\ \/ pc[r] = "confirm" /\ IsConfirmation(replies'[r][1])
                     \/ pc[r] = "apologize" /\ replies'[r] = <<ApologyText>>]_vars

\* one event was handled to the confirmation and another to the apology
C19_Witness ==
    \E r \in Req, q \in Req :
       /\ Handled(r) /\ Handled(q)
       /\ IsConfirmation(replies[r][1])
       /\ jobs[r].state # "none"
       /\ replies[q] = <<ApologyText>>
       /\ jobs[q].state = "none"
       /\ Len(reminders) = 1

====
